---- MODULE Spec2Model ----
(***************************************************************************)
(* Furniture retrieval core of the DecoPlan demo (src/lib/mockRAG.ts):     *)
(* style detection, catalog selection, the two retrievers and the room     *)
(* coverage calculator.                                                    *)
(*                                                                         *)
(* Strings are sequences of UTF-16 code units, each written as a one-unit  *)
(* string ("a", " ") or, outside ASCII, as its code point ("U+017F").      *)
(* Metres and confidence scores are kept in hundredths (0.95 is 95), which *)
(* is exact for every number of the catalogs.                              *)
(***************************************************************************)
EXTENDS Integers, Sequences, FiniteSets, TLC

VARIABLES
    query,              \* argument of the call: the user's text
    maxResults,         \* argument of the call
    pc,                 \* position of the caller: idle, detected, delay, done
    detected,           \* value returned by a direct detectRoomStyle(query) call
    style,              \* local of retrieveFurniture (line 82)
    furnitureDatabase,  \* local of retrieveFurniture (line 85)
    result,             \* the RAGRetrievalResult the call resolved to
    now,                \* the clock read by new Date(), in ms
    \* calculateRoomCoverage and its caller (SpecCoverage)
    covFurniture,       \* the caller's Furniture[], passed as `furniture`
    roomWidth,          \* argument, in hundredths of a metre
    roomDepth,          \* argument, in hundredths of a metre
    covStats,           \* the value the last call returned
    covLog,             \* the calls made so far: arguments and returned value
    \* retrieveFurnitureByCategory, called once (SpecCategory)
    categories,         \* argument
    catPc,              \* "idle", "delay" (awaiting simulateDelay) or "done"
    catResult,          \* the RAGRetrievalResult the call resolved to
    \* several retrievals in flight, with the objects they share (SpecCalls)
    calls,              \* per call: its arguments, position, timer and result
    mockDb,             \* the array MOCK_FURNITURE_DATABASE, nested objects by reference
    japaneseDb,         \* the array JAPANESE_FURNITURE_DATABASE, likewise
    objects,            \* the position, dimensions and color objects of the records
    \* the demo page HomePage with its chat box and furniture panel (SpecPage)
    pageFurniture,      \* the state `furniture` of HomePage
    isLoading,          \* the state `isLoading` of HomePage
    chatMessages,       \* the state `chatMessages` of HomePage
    pending,            \* the handler runs awaiting retrieveFurniture, oldest first
    lastEvent,          \* the last thing that happened on the page
    \* the search front end App with its search form and filter panel (SpecSearch)
    results,            \* the state `results` of App: <<>> for null, else <<data>>
    appIsLoading,       \* the state `isLoading` of App
    error,              \* the state `error` of App: "null" or the message
    isFilterOpen,       \* the state `isFilterOpen` of App
    selectedFurnitureTypes, \* the state `selectedFurnitureTypes` of App
    currentPrompt,      \* the state `currentPrompt` of App
    searches,           \* the handleSearch runs in the order they started, with
                        \* their request and whether it is pending or how it settled
    \* one LLMWrapper object and the llama.cpp objects it creates (SpecWrapper)
    model_,             \* member model_: 0 for nullptr, else the object's number
    ctx_,               \* member ctx_, likewise
    sampler_,           \* member sampler_, likewise
    llamaObjects,       \* the objects created so far: kind and number of times freed
    destroyed,          \* the destructor has run
    lastCall,           \* the last member function called and what it returned
    initializeCalls     \* the number of initialize calls so far

retrieveVars == <<query, maxResults, pc, detected, style, furnitureDatabase, result>>
coverageVars == <<covFurniture, roomWidth, roomDepth, covStats, covLog>>
categoryVars == <<categories, catPc, catResult>>

callVars == <<calls, mockDb, japaneseDb, objects>>

pageVars == <<pageFurniture, isLoading, chatMessages, pending, lastEvent>>

\* the variables of the front ends
searchVars == <<results, appIsLoading, error, isFilterOpen, selectedFurnitureTypes,
                currentPrompt, searches>>

wrapperVars == <<model_, ctx_, sampler_, llamaObjects, destroyed, lastCall,
                 initializeCalls>>

frontVars == <<pageVars, searchVars, wrapperVars>>

vars == <<retrieveVars, now, coverageVars, categoryVars, callVars, frontVars>>

Min(a, b) == IF a < b THEN a ELSE b
Max(a, b) == IF a > b THEN a ELSE b

----------------------------------------------------------------------------
(* Bounds of the model                                                     *)

\* a query is one of the literal queries of the repository or up to MaxFrags fragments
MaxFrags == 2
\* maxResults ranges over -MaxNegResults .. MaxPosResults
MaxPosResults == 11
MaxNegResults == 2
\* calculateRoomCoverage is given lists of up to MaxListLen items
MaxListLen == 2
\* and is called up to MaxCoverageCalls times on distinct arguments
MaxCoverageCalls == 2

----------------------------------------------------------------------------
(* String.prototype.toLowerCase and String.prototype.includes              *)

UpperCaseLetters ==
    <<"A", "B", "C", "D", "E", "F", "G", "H", "I", "J", "K", "L", "M",
      "N", "O", "P", "Q", "R", "S", "T", "U", "V", "W", "X", "Y", "Z">>
LowerCaseLetters ==
    <<"a", "b", "c", "d", "e", "f", "g", "h", "i", "j", "k", "l", "m",
      "n", "o", "p", "q", "r", "s", "t", "u", "v", "w", "x", "y", "z">>

\* the lower-case mapping of one code unit: A-Z go to a-z; every other unit of
\* the model's alphabet (a-z, space, U+017F LATIN SMALL LETTER LONG S) is
\* already lower case and maps to itself
UpperToLower ==
    [c \in {UpperCaseLetters[i] : i \in DOMAIN UpperCaseLetters} |->
        LowerCaseLetters[CHOOSE i \in DOMAIN UpperCaseLetters : UpperCaseLetters[i] = c]]

toLowerCaseUnit(c) ==
    IF c \in DOMAIN UpperToLower THEN UpperToLower[c] ELSE c

toLowerCase(s) ==
    [i \in 1..Len(s) |-> toLowerCaseUnit(s[i])]

\* searchString matches s unit by unit from (1-based) position k on
RECURSIVE matchesFrom(_, _, _, _)
matchesFrom(s, searchString, k, j) ==
    IF j > Len(searchString) THEN TRUE
    ELSE IF s[k + j - 1] # searchString[j] THEN FALSE
    ELSE matchesFrom(s, searchString, k, j + 1)

\* s.indexOf(searchString) scanning from (1-based) position k; 0 when absent
RECURSIVE indexOfFrom(_, _, _)
indexOfFrom(s, searchString, k) ==
    IF k + Len(searchString) - 1 > Len(s) THEN 0
    ELSE IF matchesFrom(s, searchString, k, 1) THEN k
    ELSE indexOfFrom(s, searchString, k + 1)

includes(s, searchString) ==
    indexOfFrom(s, searchString, 1) # 0

----------------------------------------------------------------------------
(* detectRoomStyle                                                         *)

FurnitureCategory ==
    {"sofa", "table", "chair", "bed", "cabinet", "shelf", "lamp", "other"}

RoomStyle ==
    {"modern", "japanese", "minimalist", "scandinavian", "industrial", "traditional"}

kwJapanese ==
    <<"j", "a", "p", "a", "n", "e", "s", "e">>
kwJapan ==
    <<"j", "a", "p", "a", "n">>
kwZen ==
    <<"z", "e", "n">>
kwTatami ==
    <<"t", "a", "t", "a", "m", "i">>
kwMinimalist ==
    <<"m", "i", "n", "i", "m", "a", "l", "i", "s", "t">>
kwMinimal ==
    <<"m", "i", "n", "i", "m", "a", "l">>
kwScandinavian ==
    <<"s", "c", "a", "n", "d", "i", "n", "a", "v", "i", "a", "n">>
kwNordic ==
    <<"n", "o", "r", "d", "i", "c">>
kwIndustrial ==
    <<"i", "n", "d", "u", "s", "t", "r", "i", "a", "l">>
kwTraditional ==
    <<"t", "r", "a", "d", "i", "t", "i", "o", "n", "a", "l">>

detectRoomStyleMinimalFirst(q) ==
    LET lowerQuery == toLowerCase(q) IN
    IF includes(lowerQuery, kwMinimalist) \/ includes(lowerQuery, kwMinimal)
    THEN "minimalist"
    ELSE IF includes(lowerQuery, kwJapanese) \/ includes(lowerQuery, kwJapan)
            \/ includes(lowerQuery, kwZen) \/ includes(lowerQuery, kwTatami)
    THEN "japanese"
    ELSE IF includes(lowerQuery, kwScandinavian) \/ includes(lowerQuery, kwNordic)
    THEN "scandinavian"
    ELSE IF includes(lowerQuery, kwIndustrial) THEN "industrial"
    ELSE IF includes(lowerQuery, kwTraditional) THEN "traditional"
    ELSE "modern"
detectRoomStyleNoNordic(q) ==
    LET lowerQuery == toLowerCase(q) IN
    IF includes(lowerQuery, kwJapanese) \/ includes(lowerQuery, kwJapan)
       \/ includes(lowerQuery, kwZen) \/ includes(lowerQuery, kwTatami)
    THEN "japanese"
    ELSE IF includes(lowerQuery, kwMinimalist) \/ includes(lowerQuery, kwMinimal)
    THEN "minimalist"
    ELSE IF includes(lowerQuery, kwScandinavian) THEN "scandinavian"
    ELSE IF includes(lowerQuery, kwIndustrial) THEN "industrial"
    ELSE IF includes(lowerQuery, kwTraditional) THEN "traditional"
    ELSE "modern"
detectRoomStyle(q) ==
    LET lowerQuery == toLowerCase(q) IN
    IF includes(lowerQuery, kwJapanese) \/ includes(lowerQuery, kwJapan)
       \/ includes(lowerQuery, kwZen) \/ includes(lowerQuery, kwTatami)
    THEN "japanese"
    ELSE IF includes(lowerQuery, kwMinimalist) \/ includes(lowerQuery, kwMinimal)
    THEN "minimalist"
    ELSE IF includes(lowerQuery, kwScandinavian) \/ includes(lowerQuery, kwNordic)
    THEN "scandinavian"
    ELSE IF includes(lowerQuery, kwIndustrial) THEN "industrial"
    ELSE IF includes(lowerQuery, kwTraditional) THEN "traditional"
    ELSE "modern"

----------------------------------------------------------------------------
(* The catalogs (furnitureData.ts); the optional description is left out   *)

\* a default catalog that breaks the data rules: a repeated id and a zero width
MOCK_FURNITURE_DATABASE_BadData == <<
    [id |-> "sofa-001", name |-> "Modern L-Shaped Sofa", category |-> "sofa",
     position |-> [x |-> -200, y |-> 40, z |-> 0],
     dimensions |-> [width |-> 250, height |-> 80, depth |-> 150],
     color |-> [r |-> 100, g |-> 100, b |-> 120], confidenceScore |-> 95],
    [id |-> "sofa-001", name |-> "Coffee Table", category |-> "table",
     position |-> [x |-> -100, y |-> 20, z |-> 200],
     dimensions |-> [width |-> 0, height |-> 40, depth |-> 60],
     color |-> [r |-> 139, g |-> 90, b |-> 60], confidenceScore |-> 92] >>

MOCK_FURNITURE_DATABASE == <<
    [id |-> "sofa-001", name |-> "Modern L-Shaped Sofa", category |-> "sofa",
     position |-> [x |-> -200, y |-> 40, z |-> 0],
     dimensions |-> [width |-> 250, height |-> 80, depth |-> 150],
     color |-> [r |-> 100, g |-> 100, b |-> 120], confidenceScore |-> 95],
    [id |-> "table-001", name |-> "Coffee Table", category |-> "table",
     position |-> [x |-> -100, y |-> 20, z |-> 200],
     dimensions |-> [width |-> 120, height |-> 40, depth |-> 60],
     color |-> [r |-> 139, g |-> 90, b |-> 60], confidenceScore |-> 92],
    [id |-> "table-002", name |-> "Dining Table", category |-> "table",
     position |-> [x |-> 300, y |-> 40, z |-> -200],
     dimensions |-> [width |-> 160, height |-> 80, depth |-> 90],
     color |-> [r |-> 160, g |-> 120, b |-> 80], confidenceScore |-> 88],
    [id |-> "chair-001", name |-> "Dining Chair", category |-> "chair",
     position |-> [x |-> 250, y |-> 45, z |-> -150],
     dimensions |-> [width |-> 50, height |-> 90, depth |-> 50],
     color |-> [r |-> 80, g |-> 80, b |-> 80], confidenceScore |-> 90],
    [id |-> "chair-002", name |-> "Dining Chair", category |-> "chair",
     position |-> [x |-> 350, y |-> 45, z |-> -150],
     dimensions |-> [width |-> 50, height |-> 90, depth |-> 50],
     color |-> [r |-> 80, g |-> 80, b |-> 80], confidenceScore |-> 90],
    [id |-> "cabinet-001", name |-> "TV Console", category |-> "cabinet",
     position |-> [x |-> -400, y |-> 30, z |-> 300],
     dimensions |-> [width |-> 200, height |-> 60, depth |-> 40],
     color |-> [r |-> 70, g |-> 50, b |-> 40], confidenceScore |-> 87],
    [id |-> "shelf-001", name |-> "Wall Shelf Unit", category |-> "shelf",
     position |-> [x |-> 400, y |-> 100, z |-> 200],
     dimensions |-> [width |-> 100, height |-> 200, depth |-> 30],
     color |-> [r |-> 200, g |-> 200, b |-> 200], confidenceScore |-> 85],
    [id |-> "lamp-001", name |-> "Floor Lamp", category |-> "lamp",
     position |-> [x |-> -300, y |-> 80, z |-> -200],
     dimensions |-> [width |-> 30, height |-> 160, depth |-> 30],
     color |-> [r |-> 220, g |-> 180, b |-> 100], confidenceScore |-> 83],
    [id |-> "sofa-002", name |-> "Accent Chair", category |-> "sofa",
     position |-> [x |-> 0, y |-> 40, z |-> -300],
     dimensions |-> [width |-> 80, height |-> 90, depth |-> 80],
     color |-> [r |-> 180, g |-> 140, b |-> 100], confidenceScore |-> 81],
    [id |-> "table-003", name |-> "Side Table", category |-> "table",
     position |-> [x |-> 50, y |-> 30, z |-> -350],
     dimensions |-> [width |-> 50, height |-> 60, depth |-> 50],
     color |-> [r |-> 100, g |-> 70, b |-> 50], confidenceScore |-> 79]
    >>

JAPANESE_FURNITURE_DATABASE == <<
    [id |-> "jp-table-001", name |-> "Chabudai Low Table", category |-> "table",
     position |-> [x |-> 0, y |-> 15, z |-> 0],
     dimensions |-> [width |-> 120, height |-> 30, depth |-> 80],
     color |-> [r |-> 139, g |-> 90, b |-> 60], confidenceScore |-> 96],
    [id |-> "jp-sofa-001", name |-> "Futon Seating", category |-> "sofa",
     position |-> [x |-> -250, y |-> 20, z |-> -200],
     dimensions |-> [width |-> 180, height |-> 40, depth |-> 90],
     color |-> [r |-> 120, g |-> 110, b |-> 100], confidenceScore |-> 94],
    [id |-> "jp-cabinet-001", name |-> "Tansu Storage Cabinet", category |-> "cabinet",
     position |-> [x |-> -400, y |-> 40, z |-> 200],
     dimensions |-> [width |-> 150, height |-> 80, depth |-> 40],
     color |-> [r |-> 90, g |-> 60, b |-> 40], confidenceScore |-> 92],
    [id |-> "jp-lamp-001", name |-> "Andon Floor Lamp", category |-> "lamp",
     position |-> [x |-> -350, y |-> 60, z |-> -300],
     dimensions |-> [width |-> 35, height |-> 120, depth |-> 35],
     color |-> [r |-> 240, g |-> 230, b |-> 210], confidenceScore |-> 90],
    [id |-> "jp-shelf-001", name |-> "Shoji Screen Shelf", category |-> "shelf",
     position |-> [x |-> 400, y |-> 90, z |-> 0],
     dimensions |-> [width |-> 120, height |-> 180, depth |-> 25],
     color |-> [r |-> 230, g |-> 220, b |-> 200], confidenceScore |-> 88],
    [id |-> "jp-table-002", name |-> "Tea Ceremony Table", category |-> "table",
     position |-> [x |-> 200, y |-> 12, z |-> -250],
     dimensions |-> [width |-> 80, height |-> 25, depth |-> 60],
     color |-> [r |-> 110, g |-> 75, b |-> 50], confidenceScore |-> 86],
    [id |-> "jp-chair-001", name |-> "Zaisu Floor Chair", category |-> "chair",
     position |-> [x |-> 80, y |-> 15, z |-> 50],
     dimensions |-> [width |-> 55, height |-> 30, depth |-> 55],
     color |-> [r |-> 100, g |-> 90, b |-> 80], confidenceScore |-> 85],
    [id |-> "jp-chair-002", name |-> "Zaisu Floor Chair", category |-> "chair",
     position |-> [x |-> -80, y |-> 15, z |-> 50],
     dimensions |-> [width |-> 55, height |-> 30, depth |-> 55],
     color |-> [r |-> 100, g |-> 90, b |-> 80], confidenceScore |-> 85],
    [id |-> "jp-cabinet-002", name |-> "Kotatsu Table", category |-> "table",
     position |-> [x |-> 250, y |-> 20, z |-> 150],
     dimensions |-> [width |-> 100, height |-> 40, depth |-> 100],
     color |-> [r |-> 130, g |-> 85, b |-> 55], confidenceScore |-> 83],
    [id |-> "jp-other-001", name |-> "Bonsai Display Stand", category |-> "other",
     position |-> [x |-> 350, y |-> 35, z |-> -100],
     dimensions |-> [width |-> 50, height |-> 70, depth |-> 40],
     color |-> [r |-> 140, g |-> 100, b |-> 70], confidenceScore |-> 80]
    >>

getFurnitureByStyleMinimalistJapanese(s) ==
    IF s \in {"japanese", "minimalist"} THEN JAPANESE_FURNITURE_DATABASE
    ELSE MOCK_FURNITURE_DATABASE
getFurnitureByStyleAlwaysDefault(s) ==
    MOCK_FURNITURE_DATABASE
getFurnitureByStyle(s) ==
    CASE s = "japanese" -> JAPANESE_FURNITURE_DATABASE
      [] OTHER -> MOCK_FURNITURE_DATABASE

----------------------------------------------------------------------------
(* Array.prototype.slice, map and sort as retrieveFurniture uses them      *)

\* arr.slice(start, end) for start >= 0: a negative end counts from the end
sliceOneMore(arr, start, end) ==
    SubSeq(arr, start + 1, Min(end + 1, Len(arr)))
slice(arr, start, end) ==
    LET final == IF end < 0 THEN Max(Len(arr) + end, 0) ELSE Min(end, Len(arr))
    IN  SubSeq(arr, start + 1, final)

\* item => ({ ...item, visible: true })
withVisibleHidden(item) ==
    [visible |-> FALSE] @@ item
withVisible(item) ==
    [visible |-> TRUE] @@ item

\* (a, b) => b.confidenceScore - a.confidenceScore
compareFnAscending(a, b) ==
    a.confidenceScore - b.confidenceScore
compareFn(a, b) ==
    b.confidenceScore - a.confidenceScore

\* Array.prototype.sort is stable: x is put after every element that does not
\* compare greater than it. j is the last position still to be compared.
RECURSIVE insertionPointUnstable(_, _, _)
insertionPointUnstable(sorted, x, j) ==
    IF j = 0 THEN 0
    ELSE IF compareFn(sorted[j], x) >= 0 THEN insertionPointUnstable(sorted, x, j - 1)
    ELSE j
RECURSIVE insertionPoint(_, _, _)
insertionPoint(sorted, x, j) ==
    IF j = 0 THEN 0
    ELSE IF compareFn(sorted[j], x) > 0 THEN insertionPoint(sorted, x, j - 1)
    ELSE j

insert(sorted, x) ==
    LET p == insertionPoint(sorted, x, Len(sorted))
    IN  SubSeq(sorted, 1, p) \o <<x>> \o SubSeq(sorted, p + 1, Len(sorted))

RECURSIVE sortFrom(_, _, _)
sortFrom(arr, k, sorted) ==
    IF k > Len(arr) THEN sorted
    ELSE sortFrom(arr, k + 1, insert(sorted, arr[k]))

sort(arr) ==
    sortFrom(arr, 1, <<>>)

\* furnitureDatabase.slice(0, maxResults).map(...).sort(...)
retrievedFurnitureSortFirst(database, n) ==
    slice(sort([i \in 1..Len(database) |-> withVisible(database[i])]), 0, n)
retrievedFurniture(database, n) ==
    LET sliced == slice(database, 0, n)
        mapped == [i \in 1..Len(sliced) |-> withVisible(sliced[i])]
    IN  sort(mapped)

----------------------------------------------------------------------------
(* retrieveFurnitureByCategory                                             *)

\* a membership test that ignores the case of two spellings of 'sofa' and 'table'
arrayIncludesIgnoringCase(arr, x) ==
    \E i \in DOMAIN arr :
        \/ arr[i] = x
        \/ arr[i] \in {"Sofa", "SOFA"} /\ x = "sofa"
        \/ arr[i] \in {"Table", "TABLE"} /\ x = "table"

\* Array.prototype.includes on an array of strings: some element is the same string
arrayIncludes(arr, x) ==
    \E i \in DOMAIN arr : arr[i] = x

\* MOCK_FURNITURE_DATABASE.filter(item => categories.includes(item.category))
RECURSIVE filterByCategory(_, _)
filterByCategory(database, cats) ==
    IF database = <<>> THEN <<>>
    ELSE IF arrayIncludes(cats, Head(database).category)
         THEN <<Head(database)>> \o filterByCategory(Tail(database), cats)
         ELSE filterByCategory(Tail(database), cats)

\* filtering that also cuts the matches to the first three
retrievedByCategoryTruncated(database, cats) ==
    LET filtered == slice(filterByCategory(database, cats), 0, 3)
        mapped == [i \in 1..Len(filtered) |-> withVisible(filtered[i])]
    IN  sort(mapped)

\* the filter, map, sort chain of retrieveFurnitureByCategory (lines 119-125)
retrievedByCategory(database, cats) ==
    LET filtered == filterByCategory(database, cats)
        mapped == [i \in 1..Len(filtered) |-> withVisible(filtered[i])]
    IN  sort(mapped)

\* Array.prototype.join, as the sequence of the pieces it concatenates
RECURSIVE join(_, _)
join(arr, separator) ==
    IF arr = <<>> THEN <<>>
    ELSE IF Len(arr) = 1 THEN <<arr[1]>>
    ELSE <<arr[1], separator>> \o join(Tail(arr), separator)

----------------------------------------------------------------------------
(* calculateRoomCoverage                                                   *)
(* Lengths are in hundredths of a metre, so width * depth and the room     *)
(* area are in 1e-4 m2; the returned totalFootprint is in hundredths of a  *)
(* m2 and the returned coveragePercentage in tenths of a percent.          *)

\* furniture.filter(f => f.visible)
filterVisibleAll(arr) ==
    arr
RECURSIVE filterVisible(_)
filterVisible(arr) ==
    IF arr = <<>> THEN <<>>
    ELSE IF Head(arr).visible THEN <<Head(arr)>> \o filterVisible(Tail(arr))
    ELSE filterVisible(Tail(arr))

\* the receiver of filter afterwards: filter builds a new array
filterReceiverEmptied(arr) ==
    <<>>
filterReceiver(arr) ==
    arr

\* arr.reduce((sum, item) => sum + item.dimensions.width * item.dimensions.depth, sum)
RECURSIVE reduceFootprint(_, _)
reduceFootprint(arr, sum) ==
    IF arr = <<>> THEN sum
    ELSE reduceFootprint(Tail(arr),
                         sum + Head(arr).dimensions.width * Head(arr).dimensions.depth)

\* num / den lies exactly half-way between two integers (den > 0)
isHalfWay(num, den) ==
    (2 * num) % (2 * den) = den

\* Math.round(num / den) for den > 0: the nearest integer. The model computes with
\* exact numbers where the code computes with doubles: the two agree except when
\* num / den is exactly half-way, where the double carries a rounding error of
\* either sign (0.35 * 0.35 + 0.35 * 0.35 is 0.24499999999999997) and Math.round
\* goes up or down with it. `half` is the side that error takes: "up" or "down".
mathRoundTruncating(num, den, half) ==
    num \div den
mathRound(num, den, half) ==
    IF isHalfWay(num, den) /\ half = "down" THEN num \div den
    ELSE (2 * num + den) \div (2 * den)

\* coveragePercentage is in tenths of a percent and is not negative for the lengths of
\* the model; these two values stand for the doubles NaN and Infinity
NaN == 0 - 1
PositiveInfinity == 0 - 2

\* a calculator that defines the coverage of a room without area as 0
roundedPercentageGuarded(totalFootprint, roomArea, half) ==
    IF roomArea = 0 THEN 0
    ELSE mathRound(totalFootprint * 1000, roomArea, half)

\* Math.round((totalFootprint / roomArea) * 100 * 10) / 10: 0 / 0 is NaN and
\* x / 0 is Infinity for x > 0; both pass through * 100, Math.round and / 10
roundedPercentage(totalFootprint, roomArea, half) ==
    IF roomArea = 0
    THEN IF totalFootprint = 0 THEN NaN ELSE PositiveInfinity
    ELSE mathRound(totalFootprint * 1000, roomArea, half)

\* half.footprint and half.percentage are the sides for the two Math.round calls
calculateRoomCoverageCountAll(furniture, width, depth, half) ==
    LET visibleFurniture == filterVisible(furniture)
        totalFootprint == reduceFootprint(visibleFurniture, 0)
        roomArea == width * depth
    IN  [totalFootprint |-> mathRound(totalFootprint, 100, half.footprint),
         coveragePercentage |-> roundedPercentage(totalFootprint, roomArea, half.percentage),
         itemCount |-> Len(furniture)]
calculateRoomCoverage(furniture, width, depth, half) ==
    LET visibleFurniture == filterVisible(furniture)
        totalFootprint == reduceFootprint(visibleFurniture, 0)
        roomArea == width * depth
    IN  [totalFootprint |-> mathRound(totalFootprint, 100, half.footprint),
         coveragePercentage |-> roundedPercentage(totalFootprint, roomArea, half.percentage),
         itemCount |-> Len(visibleFurniture)]

\* the sides the doubles of a call can take: "down" only where a value is half-way
Halves(furniture, width, depth) ==
    LET totalFootprint == reduceFootprint(filterVisible(furniture), 0) IN
    {h \in [footprint : {"up", "down"}, percentage : {"up", "down"}] :
        /\ h.footprint = "down" => isHalfWay(totalFootprint, 100)
        /\ h.percentage = "down" =>
               width * depth # 0 /\ isHalfWay(totalFootprint * 1000, width * depth)}

----------------------------------------------------------------------------
(* The inputs: the literal queries of the repository (the default argument, *)
(* the page's fixed query, two quick prompts of the chat box) and texts     *)
(* put together from keyword-bearing fragments                              *)

fragJaPaNeSe ==
    <<"J", "a", "P", "a", "N", "e", "S", "e">>
fragJapan ==
    <<"J", "a", "p", "a", "n">>
fragZEN ==
    <<"Z", "E", "N">>
fragMinimal ==
    <<"M", "i", "n", "i", "m", "a", "l">>
fragNORDIC ==
    <<"N", "O", "R", "D", "I", "C">>
fragIndustrial ==
    <<"I", "n", "d", "u", "s", "t", "r", "i", "a", "l">>
fragRoom ==
    <<" ", "r", "o", "o", "m">>
fragMini ==
    <<"m", "i", "n", "i">>
fragMal ==
    <<"m", "a", "l">>
fragLongS ==
    <<"i", "n", "d", "u", "U+017F", "t", "r", "i", "a", "l">>
queryDefault ==
    <<"H", "D", "B", " ", "l", "i", "v", "i", "n", "g", " ", "r", "o", "o", "m", " ",
      "f", "u", "r", "n", "i", "t", "u", "r", "e">>
queryMount ==
    <<"M", "o", "d", "e", "r", "n", " ", "H", "D", "B", " ", "l", "i", "v", "i", "n",
      "g", " ", "r", "o", "o", "m", " ", "s", "e", "t", "u", "p">>
queryJapaneseRoom ==
    <<"G", "e", "n", "e", "r", "a", "t", "e", " ", "a", " ", "J", "a", "p", "a", "n",
      "e", "s", "e", " ", "s", "t", "y", "l", "e", " ", "l", "i", "v", "i", "n", "g",
      " ", "r", "o", "o", "m">>
queryMinimalistRoom ==
    <<"G", "e", "n", "e", "r", "a", "t", "e", " ", "a", " ", "m", "o", "d", "e", "r",
      "n", " ", "m", "i", "n", "i", "m", "a", "l", "i", "s", "t", " ", "r", "o", "o",
      "m">>

Fragments ==
    {kwJapanese, fragJaPaNeSe, fragJapan, fragZEN, kwTatami,
     kwMinimalist, fragMinimal, kwScandinavian, fragNORDIC,
     fragIndustrial, kwTraditional, fragRoom, fragMini, fragMal, fragLongS}

RECURSIVE Concatenations(_)
Concatenations(n) ==
    IF n = 0 THEN {<<>>}
    ELSE LET shorter == Concatenations(n - 1)
         IN  shorter \cup {q \o f : q \in shorter, f \in Fragments}

Queries ==
    {queryDefault, queryMount, queryJapaneseRoom, queryMinimalistRoom} \cup Concatenations(MaxFrags)

MaxResultsValues ==
    (0 - MaxNegResults) .. MaxPosResults

----------------------------------------------------------------------------
(* The state machine: a caller makes one call of the module, either        *)
(* detectRoomStyle(query) or retrieveFurniture(query, n)                   *)

DelayMs == 1500
DefaultMaxResults == 10

NoResult ==
    [furniture |-> <<>>, timestamp |-> 0, query |-> <<>>]

NoStats ==
    [totalFootprint |-> 0, coveragePercentage |-> 0, itemCount |-> 0]

\* the variables of the coverage calculator while no one uses it
CoverageUnused ==
    /\ covFurniture = <<>>
    /\ roomWidth = 0
    /\ roomDepth = 0
    /\ covStats = NoStats
    /\ covLog = {}

RetrieveUnused ==
    /\ query = <<>>
    /\ maxResults = DefaultMaxResults
    /\ pc = "idle"
    /\ detected = "none"
    /\ style = "none"
    /\ furnitureDatabase = <<>>
    /\ result = NoResult

CategoryUnused ==
    /\ categories = <<>>
    /\ catPc = "idle"
    /\ catResult = NoResult

CallsUnused ==
    /\ calls = <<>>
    /\ mockDb = <<>>
    /\ japaneseDb = <<>>
    /\ objects = <<>>

\* no handler run, and the page before anything happened on it; `toggled` records
\* that a visibility toggle was made while the run awaited retrieveFurniture
NoHandler ==
    [kind |-> "none", message |-> <<>>, style |-> "none", toggled |-> FALSE]
NoEvent ==
    [type |-> "none", handler |-> NoHandler, discarded |-> FALSE]

\* HomePage as it is mounted: useState([]), useState(false), useState([])
PageUnused ==
    /\ pageFurniture = <<>>
    /\ isLoading = FALSE
    /\ chatMessages = <<>>
    /\ pending = <<>>
    /\ lastEvent = NoEvent

\* App as it is mounted
SearchUnused ==
    /\ results = <<>>
    /\ appIsLoading = FALSE
    /\ error = "null"
    /\ isFilterOpen = FALSE
    /\ selectedFurnitureTypes = <<>>
    /\ currentPrompt = <<>>
    /\ searches = <<>>

\* LLMWrapper::LLMWrapper(): the three members are nullptr
WrapperUnused ==
    /\ model_ = 0
    /\ ctx_ = 0
    /\ sampler_ = 0
    /\ llamaObjects = <<>>
    /\ destroyed = FALSE
    /\ lastCall = "none"
    /\ initializeCalls = 0

FrontUnused ==
    /\ PageUnused
    /\ SearchUnused
    /\ WrapperUnused

Init ==
    /\ query \in Queries
    /\ maxResults = DefaultMaxResults
    /\ pc = "idle"
    /\ detected = "none"
    /\ style = "none"
    /\ furnitureDatabase = <<>>
    /\ result = NoResult
    /\ now = 0
    /\ CoverageUnused
    /\ CategoryUnused
    /\ CallsUnused
    /\ FrontUnused

\* a caller's direct call of the exported detectRoomStyle
DetectRoomStyle ==
    /\ pc = "idle"
    /\ detected' = detectRoomStyle(query)
    /\ pc' = "detected"
    /\ UNCHANGED <<query, maxResults, style, furnitureDatabase, result, now>>
    /\ UNCHANGED <<coverageVars, categoryVars, frontVars, callVars>>

\* retrieveFurniture(query, n) up to its await: the delay timer is started
CallRetrieveFurniture ==
    /\ pc = "idle"
    /\ \E n \in MaxResultsValues : maxResults' = n
    /\ pc' = "delay"
    /\ UNCHANGED <<query, detected, style, furnitureDatabase, result, now>>
    /\ UNCHANGED <<coverageVars, categoryVars, frontVars, callVars>>

\* the timer fires and retrieveFurniture runs to its return
ResumeRetrieveFurniture ==
    /\ pc = "delay"
    /\ now' = now + DelayMs
    /\ style' = detectRoomStyle(query)
    /\ furnitureDatabase' = getFurnitureByStyle(style')
    /\ result' = [furniture |-> retrievedFurniture(furnitureDatabase', maxResults),
                  timestamp |-> now',
                  query |-> query]
    /\ pc' = "done"
    /\ UNCHANGED <<query, maxResults, detected>>
    /\ UNCHANGED <<coverageVars, categoryVars, frontVars, callVars>>

Next ==
    \/ DetectRoomStyle
    \/ CallRetrieveFurniture
    \/ ResumeRetrieveFurniture

Spec == Init /\ [][Next]_vars

----------------------------------------------------------------------------
(* The coverage calculator and its caller: the furniture panel calls       *)
(* calculateRoomCoverage(furniture, 10, 8) on the list it displays, and    *)
(* the page toggles the visibility of the items of that list               *)

\* the two items of the spec's example: footprints 2.0 m2 and 3.0 m2
exampleItemA ==
    [id |-> "example-a", name |-> "Example A", category |-> "other",
     position |-> [x |-> 0, y |-> 0, z |-> 0],
     dimensions |-> [width |-> 200, height |-> 50, depth |-> 100],
     color |-> [r |-> 0, g |-> 0, b |-> 0], confidenceScore |-> 50]
exampleItemB ==
    [id |-> "example-b", name |-> "Example B", category |-> "other",
     position |-> [x |-> 0, y |-> 0, z |-> 0],
     dimensions |-> [width |-> 200, height |-> 220, depth |-> 150],
     color |-> [r |-> 0, g |-> 0, b |-> 0], confidenceScore |-> 50]

\* the example items and a catalog record, the Andon Floor Lamp (0.35 x 0.35)
CoverageRecords ==
    {exampleItemA, exampleItemB, JAPANESE_FURNITURE_DATABASE[4]}

CoverageItems ==
    {[visible |-> v] @@ r : r \in CoverageRecords, v \in BOOLEAN}

RECURSIVE CoverageLists(_)
CoverageLists(n) ==
    IF n = 0 THEN {<<>>}
    ELSE LET shorter == CoverageLists(n - 1)
         IN  shorter \cup {Append(l, i) : l \in shorter, i \in CoverageItems}

\* the panel's room of 10 m x 8 m, a small one of 3 m x 2.5 m, and rooms without
\* width or without depth
CoverageRooms ==
    {[width |-> 1000, depth |-> 800], [width |-> 300, depth |-> 250],
     [width |-> 0, depth |-> 800], [width |-> 300, depth |-> 0]}

InitCoverage ==
    /\ covFurniture \in CoverageLists(MaxListLen)
    /\ \E room \in CoverageRooms : roomWidth = room.width /\ roomDepth = room.depth
    /\ covStats = NoStats
    /\ covLog = {}
    /\ RetrieveUnused
    /\ CategoryUnused
    /\ CallsUnused
    /\ FrontUnused
    /\ now = 0

\* calculateRoomCoverage(covFurniture, roomWidth, roomDepth). Double arithmetic is
\* deterministic: a call with the arguments of an earlier one rounds as that one did.
CalculateRoomCoverage ==
    /\ \/ Cardinality(covLog) < MaxCoverageCalls
       \/ \E call \in covLog : call.furniture = covFurniture
    /\ \E half \in Halves(covFurniture, roomWidth, roomDepth) :
           /\ \A call \in covLog :
                  (call.furniture = covFurniture /\ call.roomWidth = roomWidth
                       /\ call.roomDepth = roomDepth) => call.half = half
           /\ covStats' = calculateRoomCoverage(covFurniture, roomWidth, roomDepth, half)
           /\ covLog' = covLog \cup {[furniture |-> covFurniture, roomWidth |-> roomWidth,
                                      roomDepth |-> roomDepth, half |-> half,
                                      stats |-> covStats']}
    /\ covFurniture' = filterReceiver(covFurniture)
    /\ UNCHANGED <<roomWidth, roomDepth, retrieveVars, now, categoryVars, frontVars, callVars>>

\* a handler that flips every item: what the id comparison rules out
toggleFurnitureAll(furniture, id) ==
    [i \in 1..Len(furniture) |->
        [furniture[i] EXCEPT !.visible = ~furniture[i].visible]]

\* handleToggleFurniture(id) of the page
toggleFurniture(furniture, id) ==
    [i \in 1..Len(furniture) |->
        IF furniture[i].id = id
        THEN [furniture[i] EXCEPT !.visible = ~furniture[i].visible]
        ELSE furniture[i]]

HandleToggleFurniture ==
    /\ \E i \in DOMAIN covFurniture :
           covFurniture' = toggleFurniture(covFurniture, covFurniture[i].id)
    /\ UNCHANGED <<roomWidth, roomDepth, covStats, covLog, retrieveVars, now, categoryVars, frontVars, callVars>>

NextCoverage ==
    \/ CalculateRoomCoverage
    \/ HandleToggleFurniture

SpecCoverage == InitCoverage /\ [][NextCoverage]_vars

----------------------------------------------------------------------------
(* One call of retrieveFurnitureByCategory                                 *)

MaxCategories == 2

CategoryDelayMs == 1000

\* the eight category values, other spellings of two of them, and other strings
CategoryStrings ==
    FurnitureCategory \cup {"Sofa", "TABLE", "seating", ""}

RECURSIVE CategoryLists(_)
CategoryLists(n) ==
    IF n = 0 THEN {<<>>}
    ELSE LET shorter == CategoryLists(n - 1)
         IN  shorter \cup {Append(l, c) : l \in shorter, c \in CategoryStrings}

InitCategory ==
    /\ categories \in CategoryLists(MaxCategories)
    /\ catPc = "idle"
    /\ catResult = NoResult
    /\ RetrieveUnused
    /\ CoverageUnused
    /\ CallsUnused
    /\ FrontUnused
    /\ now = 0

\* retrieveFurnitureByCategory(categories) up to its await
CallRetrieveFurnitureByCategory ==
    /\ catPc = "idle"
    /\ catPc' = "delay"
    /\ UNCHANGED <<categories, catResult, now, retrieveVars, frontVars, coverageVars, callVars>>

\* the timer fires and retrieveFurnitureByCategory runs to its return
ResumeRetrieveFurnitureByCategory ==
    /\ catPc = "delay"
    /\ now' = now + CategoryDelayMs
    /\ catResult' = [furniture |-> retrievedByCategory(MOCK_FURNITURE_DATABASE, categories),
                     query |-> <<"Categories: ">> \o join(categories, ", "),
                     timestamp |-> now']
    /\ catPc' = "done"
    /\ UNCHANGED <<categories, retrieveVars, frontVars, coverageVars, callVars>>

NextCategory ==
    \/ CallRetrieveFurnitureByCategory
    \/ ResumeRetrieveFurnitureByCategory

SpecCategory == InitCategory /\ [][NextCategory]_vars

----------------------------------------------------------------------------
(* Several retrievals in flight. The catalogs are module-level arrays of   *)
(* objects; a record's position, dimensions and color are objects of their *)
(* own, held by reference, and { ...item, visible: true } copies those      *)
(* references into the new item                                             *)

MaxCalls == 2

MaxCallResults == 2

NestedParts ==
    {"position", "dimensions", "color"}

Ref(db, i, part) ==
    [db |-> db, idx |-> i, part |-> part]

\* the records of a catalog array, each nested object replaced by its reference
withRefs(db, database) ==
    [i \in DOMAIN database |->
        [database[i] EXCEPT !.position = Ref(db, i, "position"),
                            !.dimensions = Ref(db, i, "dimensions"),
                            !.color = Ref(db, i, "color")]]

catalogLiteral(db) ==
    IF db = "japanese" THEN JAPANESE_FURNITURE_DATABASE ELSE MOCK_FURNITURE_DATABASE

Refs ==
    {Ref(db, i, part) : db \in {"mock"}, i \in DOMAIN MOCK_FURNITURE_DATABASE,
                        part \in NestedParts}
        \cup {Ref(db, i, part) : db \in {"japanese"},
                                 i \in DOMAIN JAPANESE_FURNITURE_DATABASE,
                                 part \in NestedParts}

\* the nested objects as the module's literals create them
initialObjects ==
    [r \in Refs |-> catalogLiteral(r.db)[r.idx][r.part]]

\* an item as a reader sees it: the nested objects its references lead to
Deref(item, heap) ==
    [item EXCEPT !.position = heap[item.position],
                 !.dimensions = heap[item.dimensions],
                 !.color = heap[item.color]]

DerefAll(items, heap) ==
    [i \in DOMAIN items |-> Deref(items[i], heap)]

\* a retrieval that takes its items out of the catalog (splice for slice)
databaseAfterRetrieveSpliced(database, n) ==
    SubSeq(database, Max(n, 0) + 1, Len(database))

\* the catalog array after slice(0, n).map(...).sort(...): slice and map build new
\* arrays, and sort sorts the array map built
databaseAfterRetrieve(database, n) ==
    database

\* a retrieval that sorts the catalog array itself
databaseAfterFilterSorted(database) ==
    sort(database)

\* the catalog array after filter(...).map(...).sort(...)
databaseAfterFilter(database) ==
    database

\* a delay that only elapses while no other call is waiting
timerFiresWhenAlone(cs, c) ==
    /\ cs[c].pc = "delay"
    /\ \A d \in DOMAIN cs : d # c => cs[d].pc # "delay"

\* simulateDelay: every call has a timer of its own, which fires once it is set
timerFires(cs, c) ==
    cs[c].pc = "delay"

IdleCall ==
    [kind |-> "none", query |-> <<>>, maxResults |-> 0, categories |-> <<>>,
     pc |-> "idle", deadline |-> 0, result |-> NoResult,
     returned |-> <<>>, held |-> <<>>]

\* the calls a caller makes: a query without a keyword, one with a Japanese and one
\* with a minimalist keyword, and a category
CallArguments ==
    {[kind |-> "style", query |-> q, maxResults |-> MaxCallResults, categories |-> <<>>] :
        q \in {fragRoom, fragZEN, fragMinimal}}
        \cup {[kind |-> "category", query |-> <<>>, maxResults |-> 0,
               categories |-> <<"lamp">>]}

delayOf(kind) ==
    IF kind = "category" THEN CategoryDelayMs ELSE DelayMs

InitCalls ==
    /\ calls = [c \in 1..MaxCalls |-> IdleCall]
    /\ mockDb = withRefs("mock", MOCK_FURNITURE_DATABASE)
    /\ japaneseDb = withRefs("japanese", JAPANESE_FURNITURE_DATABASE)
    /\ objects = initialObjects
    /\ now = 0
    /\ covFurniture = <<>>
    /\ roomWidth = 1000
    /\ roomDepth = 800
    /\ covStats = NoStats
    /\ covLog = {}
    /\ RetrieveUnused
    /\ CategoryUnused
    /\ FrontUnused

\* the c-th call, retrieveFurniture or retrieveFurnitureByCategory, up to its await
StartCall(c) ==
    /\ calls[c].pc = "idle"
    /\ c > 1 => calls[c - 1].pc # "idle"
    /\ \E a \in CallArguments :
           calls' = [calls EXCEPT ![c] =
                        [IdleCall EXCEPT !.kind = a.kind, !.query = a.query,
                                         !.maxResults = a.maxResults,
                                         !.categories = a.categories,
                                         !.pc = "delay",
                                         !.deadline = now + delayOf(a.kind)]]
    /\ UNCHANGED <<mockDb, japaneseDb, objects, now, retrieveVars, coverageVars,
                   categoryVars, frontVars>>

\* the timer of a retrieveFurniture call fires and the call runs to its return
ResumeStyleCall(c) ==
    /\ calls[c].kind = "style"
    /\ timerFires(calls, c)
    /\ now' = Max(now, calls[c].deadline)
    /\ \E roomStyle \in {detectRoomStyle(calls[c].query)} :
       \E japanese \in {getFurnitureByStyle(roomStyle) = JAPANESE_FURNITURE_DATABASE} :
       \E furniture \in {retrievedFurniture(IF japanese THEN japaneseDb ELSE mockDb,
                                            calls[c].maxResults)} :
       \E values \in {DerefAll(furniture, objects)} :
           /\ calls' = [calls EXCEPT ![c].pc = "done",
                                     ![c].result = [furniture |-> furniture,
                                                    timestamp |-> now',
                                                    query |-> calls[c].query],
                                     ![c].returned = values,
                                     ![c].held = values]
           /\ mockDb' = IF japanese THEN mockDb
                        ELSE databaseAfterRetrieve(mockDb, calls[c].maxResults)
           /\ japaneseDb' = IF japanese
                            THEN databaseAfterRetrieve(japaneseDb, calls[c].maxResults)
                            ELSE japaneseDb
    /\ UNCHANGED <<objects, retrieveVars, coverageVars, categoryVars, frontVars>>

\* the timer of a retrieveFurnitureByCategory call fires and the call runs to its return
ResumeCategoryCall(c) ==
    /\ calls[c].kind = "category"
    /\ timerFires(calls, c)
    /\ now' = Max(now, calls[c].deadline)
    /\ \E furniture \in {retrievedByCategory(mockDb, calls[c].categories)} :
       \E values \in {DerefAll(furniture, objects)} :
           calls' = [calls EXCEPT ![c].pc = "done",
                                  ![c].result = [furniture |-> furniture,
                                                 timestamp |-> now',
                                                 query |-> <<"Categories: ">>
                                                     \o join(calls[c].categories, ", ")],
                                  ![c].returned = values,
                                  ![c].held = values]
    /\ mockDb' = databaseAfterFilter(mockDb)
    /\ UNCHANGED <<japaneseDb, objects, retrieveVars, coverageVars, categoryVars, frontVars>>

\* the caller changes the visible flag of the first item of a result it was given
ToggleVisible(c) ==
    /\ calls[c].pc = "done"
    /\ calls[c].result.furniture # <<>>
    /\ calls' = [calls EXCEPT
                    ![c].result.furniture[1].visible = ~calls[c].held[1].visible,
                    ![c].held[1].visible = ~calls[c].held[1].visible]
    /\ UNCHANGED <<mockDb, japaneseDb, objects, now, retrieveVars, coverageVars,
                   categoryVars, frontVars>>

\* the caller computes the coverage of a result it was given, as the panel does
CoverageOfResult(c) ==
    /\ calls[c].pc = "done"
    /\ LET furniture == DerefAll(calls[c].result.furniture, objects)
       IN  \E half \in Halves(furniture, roomWidth, roomDepth) :
               covStats' = calculateRoomCoverage(furniture, roomWidth, roomDepth, half)
    /\ calls' = [calls EXCEPT ![c].result.furniture = filterReceiver(@)]
    /\ UNCHANGED <<mockDb, japaneseDb, objects, now, retrieveVars, categoryVars, frontVars,
                   covFurniture, roomWidth, roomDepth, covLog>>

NextCalls ==
    \E c \in 1..MaxCalls :
        \/ StartCall(c)
        \/ ResumeStyleCall(c)
        \/ ResumeCategoryCall(c)
        \/ ToggleVisible(c)
        \/ CoverageOfResult(c)

SpecCalls == InitCalls /\ [][NextCalls]_vars

\* the retrievals alone, without the caller's use of their results
NextRetrievals ==
    \E c \in 1..MaxCalls :
        \/ StartCall(c)
        \/ ResumeStyleCall(c)
        \/ ResumeCategoryCall(c)

\* timers that are set fire: setTimeout runs its callback once the delay is over
FairSpecCalls ==
    /\ InitCalls
    /\ [][NextRetrievals]_vars
    /\ \A c \in 1..MaxCalls : WF_vars(ResumeStyleCall(c)) /\ WF_vars(ResumeCategoryCall(c))

----------------------------------------------------------------------------
(* The same calls with a caller that also writes to the nested objects of  *)
(* the items it was given                                                   *)

MaxMutations == 1

\* the value a caller writes: position.x = 0, dimensions.width = 1, color.r = 255
written(part, object) ==
    CASE part = "position" -> [object EXCEPT !.x = 0]
      [] part = "dimensions" -> [object EXCEPT !.width = 1]
      [] OTHER -> [object EXCEPT !.r = 255]

Mutated ==
    {r \in Refs : objects[r] # initialObjects[r]}

\* the caller assigns to a field of position, dimensions or color of the first item
\* of a result it was given
MutateNested(c) ==
    /\ calls[c].pc = "done"
    /\ calls[c].result.furniture # <<>>
    /\ Cardinality(Mutated) < MaxMutations
    /\ \E part \in NestedParts :
           LET ref == calls[c].result.furniture[1][part]
               object == written(part, objects[ref])
           IN  /\ objects[ref] # object
               /\ objects' = [objects EXCEPT ![ref] = object]
               /\ calls' = [calls EXCEPT ![c].held[1][part] = object]
    /\ UNCHANGED <<mockDb, japaneseDb, now, retrieveVars, coverageVars, categoryVars, frontVars>>

NextAlias ==
    \/ NextCalls
    \/ \E c \in 1..MaxCalls : MutateNested(c)

SpecAlias == InitCalls /\ [][NextAlias]_vars

----------------------------------------------------------------------------
(* Vocabulary of the properties                                            *)

\* kw occurs in s as a contiguous substring
Contains(s, kw) ==
    \E i \in 1..(Len(s) - Len(kw) + 1) : \A j \in DOMAIN kw : s[i + j - 1] = kw[j]

\* the rules of the style detector, in priority order
StyleRules == <<
    [style |-> "japanese",     keywords |-> {kwJapanese, kwJapan, kwZen, kwTatami}],
    [style |-> "minimalist",   keywords |-> {kwMinimalist, kwMinimal}],
    [style |-> "scandinavian", keywords |-> {kwScandinavian, kwNordic}],
    [style |-> "industrial",   keywords |-> {kwIndustrial}],
    [style |-> "traditional",  keywords |-> {kwTraditional}]
    >>

\* the rules one of whose keywords the lower-cased query contains
MatchingRules(q) ==
    LET lower == toLowerCase(q)
    IN  {k \in DOMAIN StyleRules : \E kw \in StyleRules[k].keywords : Contains(lower, kw)}

RuleMatches(k, q) ==
    k \in MatchingRules(q)

FirstMatchingStyle(q) ==
    LET matching == MatchingRules(q) IN
    IF matching = {} THEN "modern"
    ELSE StyleRules[CHOOSE k \in matching : \A j \in matching : k <= j].style

\* String.prototype.toUpperCase on one code unit: a-z go to A-Z, and the long s
\* (U+017F) has the upper case "S"
LowerToUpper ==
    [c \in {LowerCaseLetters[i] : i \in DOMAIN LowerCaseLetters} |->
        UpperCaseLetters[CHOOSE i \in DOMAIN LowerCaseLetters : LowerCaseLetters[i] = c]]

toUpperCaseUnit(c) ==
    IF c \in DOMAIN LowerToUpper THEN LowerToUpper[c]
    ELSE IF c = "U+017F" THEN "S"
    ELSE c

\* the unit with its case changed (itself when it is no letter)
ChangeCaseUnit(c) ==
    IF toLowerCaseUnit(c) # c THEN toLowerCaseUnit(c) ELSE toUpperCaseUnit(c)

ChangeCaseAt(q, i) ==
    [q EXCEPT ![i] = ChangeCaseUnit(q[i])]

IsAsciiLetter(c) ==
    c \in DOMAIN LowerToUpper \/ c \in DOMAIN UpperToLower

Ids(items) ==
    {items[i].id : i \in DOMAIN items}

\* the catalog record a returned item was made from
WithoutVisible(item) ==
    [f \in (DOMAIN item) \ {"visible"} |-> item[f]]

\* position of the record with this id in a catalog
PositionIn(catalog, id) ==
    CHOOSE i \in DOMAIN catalog : catalog[i].id = id

NonIncreasing(items) ==
    \A i \in 1..(Len(items) - 1) :
        items[i].confidenceScore >= items[i + 1].confidenceScore

----------------------------------------------------------------------------
(* Properties                                                              *)

\* C1: detectRoomStyle returns the style of the first rule, in the order japanese,
\* minimalist, scandinavian, industrial, traditional, one of whose keywords is a
\* substring of the lower-cased query, and modern when no rule matches; a query
\* with a japanese and a minimalist keyword yields japanese.
C1_FirstMatchingRuleWins ==
    /\ detected # "none" => detected = FirstMatchingStyle(query)
    /\ pc = "done" => style = FirstMatchingStyle(query)
    /\ (detected # "none" /\ RuleMatches(1, query) /\ RuleMatches(2, query))
           => detected = "japanese"

C1_Witness ==
    /\ detected = "japanese"
    /\ RuleMatches(2, query)
    /\ Contains(query, kwMinimalist)
    /\ Contains(query, kwJapanese)

\* C2: changing the case of any letter of the query does not change the style
\* detectRoomStyle returns.
C2_CaseChangeKeepsStyle ==
    detected # "none" =>
        \A i \in DOMAIN query : detectRoomStyle(ChangeCaseAt(query, i)) = detected

\* C2, for the letters A-Z and a-z only: changing the case of an ASCII letter of
\* the query does not change the style.
C2_AsciiCaseChangeKeepsStyle ==
    detected # "none" =>
        \A i \in DOMAIN query :
            IsAsciiLetter(query[i]) => detectRoomStyle(ChangeCaseAt(query, i)) = detected

\* C3: detectRoomStyle returns one of the six RoomStyle values for every query, the
\* empty one included, and returns modern exactly when the lower-cased query
\* contains none of the keywords.
C3_TotalWithModernDefault ==
    detected # "none" =>
        /\ detected \in RoomStyle
        /\ detected = "modern" <=>
               LET lower == toLowerCase(query) IN
               \A k \in DOMAIN StyleRules : \A kw \in StyleRules[k].keywords :
                   ~Contains(lower, kw)

C3_Witness ==
    /\ detected = "modern"
    /\ query = <<>>

\* C4: the catalog selector returns the Japanese catalog for japanese and the
\* default catalog for the five other styles, so retrieveFurniture draws from the
\* Japanese catalog exactly when detectRoomStyle(query) is japanese.
C4_CatalogSelection ==
    /\ \A s \in RoomStyle :
           getFurnitureByStyle(s) =
               IF s = "japanese" THEN JAPANESE_FURNITURE_DATABASE
               ELSE MOCK_FURNITURE_DATABASE
    /\ pc = "done" =>
           /\ furnitureDatabase \in {JAPANESE_FURNITURE_DATABASE, MOCK_FURNITURE_DATABASE}
           /\ furnitureDatabase = JAPANESE_FURNITURE_DATABASE
                  <=> detectRoomStyle(query) = "japanese"
           /\ Ids(result.furniture) \subseteq Ids(furnitureDatabase)

C4_Witness ==
    /\ pc = "done"
    /\ style = "minimalist"
    /\ furnitureDatabase = MOCK_FURNITURE_DATABASE
    /\ result.furniture # <<>>

\* C5: for a positive maxResults, retrieveFurniture returns exactly
\* min(maxResults, size of the selected catalog) items, each with visible = true.
C5_CountAndVisible ==
    (pc = "done" /\ maxResults > 0) =>
        /\ Len(result.furniture) = Min(maxResults, Len(furnitureDatabase))
        /\ \A i \in DOMAIN result.furniture : result.furniture[i].visible = TRUE

C5_Witness ==
    /\ pc = "done"
    /\ maxResults > Len(furnitureDatabase)
    /\ Len(result.furniture) = Len(furnitureDatabase)
    /\ Len(furnitureDatabase) > 0

\* C6: the furniture sequence returned by retrieveFurniture is ordered by
\* non-increasing confidenceScore.
C6_SortedByConfidence ==
    pc = "done" => NonIncreasing(result.furniture)

\* the catalog prefix was out of order (table-002 0.88 before chair-001 0.90)
C6_Witness ==
    /\ pc = "done"
    /\ \E i, j \in DOMAIN result.furniture :
           /\ i < j
           /\ result.furniture[i].id = "chair-001"
           /\ result.furniture[j].id = "table-002"

\* C7: retrieveFurniture truncates before it sorts: the returned records are
\* exactly the first min(maxResults, |catalog|) records of the selected catalog,
\* whatever the confidence of the records beyond that prefix; the default catalog
\* with maxResults = 3 gives sofa-001, table-001 and table-002.
C7_TruncateThenSort ==
    (pc = "done" /\ maxResults > 0) =>
        LET n == Min(maxResults, Len(furnitureDatabase)) IN
        /\ Len(result.furniture) = n
        /\ {WithoutVisible(result.furniture[i]) : i \in DOMAIN result.furniture}
               = {furnitureDatabase[i] : i \in 1..n}
        /\ (maxResults = 3 /\ furnitureDatabase = MOCK_FURNITURE_DATABASE)
               => Ids(result.furniture) = {"sofa-001", "table-001", "table-002"}

\* chair-001 (0.90) lies beyond the prefix and beats table-002 (0.88) inside it
C7_Witness ==
    /\ pc = "done"
    /\ maxResults = 3
    /\ furnitureDatabase = MOCK_FURNITURE_DATABASE
    /\ "table-002" \in Ids(result.furniture)
    /\ "chair-001" \notin Ids(result.furniture)
    /\ MOCK_FURNITURE_DATABASE[4].confidenceScore > MOCK_FURNITURE_DATABASE[3].confidenceScore

\* C8: the confidence sort is stable: two returned items of equal confidenceScore
\* keep the relative order they have in the catalog.
C8_StableSort ==
    pc = "done" =>
        \A i, j \in DOMAIN result.furniture :
            (i < j /\ result.furniture[i].confidenceScore = result.furniture[j].confidenceScore)
                => PositionIn(furnitureDatabase, result.furniture[i].id)
                       < PositionIn(furnitureDatabase, result.furniture[j].id)

C8_Witness ==
    /\ pc = "done"
    /\ \E i \in DOMAIN result.furniture :
           /\ i + 1 \in DOMAIN result.furniture
           /\ result.furniture[i].id \in {"chair-001", "jp-chair-001"}
           /\ result.furniture[i + 1].id \in {"chair-002", "jp-chair-002"}
           /\ result.furniture[i].confidenceScore = result.furniture[i + 1].confidenceScore

\* C9: for a query with a japanese keyword every returned item is a record of the
\* Japanese catalog and none is of the default catalog; "Generate a Japanese style
\* living room" with maxResults = 10 gives all 10 Japanese records, Chabudai Low
\* Table (0.96) first.
C9_JapaneseQueryJapaneseItems ==
    /\ (pc = "done" /\ RuleMatches(1, query)) =>
           /\ \A i \in DOMAIN result.furniture :
                  WithoutVisible(result.furniture[i])
                      \in {JAPANESE_FURNITURE_DATABASE[k] : k \in DOMAIN JAPANESE_FURNITURE_DATABASE}
           /\ Ids(result.furniture) \cap Ids(MOCK_FURNITURE_DATABASE) = {}
    /\ (pc = "done" /\ query = queryJapaneseRoom /\ maxResults = 10) =>
           /\ Len(result.furniture) = 10
           /\ Ids(result.furniture) = Ids(JAPANESE_FURNITURE_DATABASE)
           /\ result.furniture[1].name = "Chabudai Low Table"
           /\ result.furniture[1].confidenceScore = 96

C9_Witness ==
    /\ pc = "done"
    /\ query = queryJapaneseRoom
    /\ maxResults = 10
    /\ result.furniture[1].id = "jp-table-001"

\* C10: the empty query with maxResults = 5 is detected as modern and returns
\* exactly 5 items, the first five records of the default catalog, in descending
\* confidence order with Modern L-Shaped Sofa (0.95) first.
C10_EmptyQueryFive ==
    (pc = "done" /\ query = <<>> /\ maxResults = 5) =>
        /\ style = "modern"
        /\ Len(result.furniture) = 5
        /\ {WithoutVisible(result.furniture[i]) : i \in DOMAIN result.furniture}
               = {MOCK_FURNITURE_DATABASE[i] : i \in 1..5}
        /\ NonIncreasing(result.furniture)
        /\ result.furniture[1].name = "Modern L-Shaped Sofa"
        /\ result.furniture[1].confidenceScore = 95

C10_Witness ==
    /\ pc = "done"
    /\ query = <<>>
    /\ maxResults = 5
    /\ Len(result.furniture) = 5
    /\ result.furniture[1].id = "sofa-001"

----------------------------------------------------------------------------
(* Properties of calculateRoomCoverage (SpecCoverage)                      *)

VisibleIndices(furniture) ==
    {i \in DOMAIN furniture : furniture[i].visible}

\* the sum of width * depth over the items at the indices in S, in 1e-4 m2
RECURSIVE FootprintOver(_, _)
FootprintOver(furniture, S) ==
    IF S = {} THEN 0
    ELSE LET i == CHOOSE j \in S : TRUE
         IN  furniture[i].dimensions.width * furniture[i].dimensions.depth
                 + FootprintOver(furniture, S \ {i})

VisibleFootprint(furniture) ==
    FootprintOver(furniture, VisibleIndices(furniture))

RemoveAt(l, i) ==
    SubSeq(l, 1, i - 1) \o SubSeq(l, i + 1, Len(l))

InsertAt(l, i, x) ==
    SubSeq(l, 1, i - 1) \o <<x>> \o SubSeq(l, i, Len(l))

HiddenItems ==
    {x \in CoverageItems : ~x.visible}

\* the lists that differ from l by one hidden item: removed, added or changed
HiddenVariants(l) ==
    {RemoveAt(l, i) : i \in {j \in DOMAIN l : ~l[j].visible}}
        \cup {InsertAt(l, i, x) : i \in 1..(Len(l) + 1), x \in HiddenItems}
        \cup {[l EXCEPT ![i] = x] : i \in {j \in DOMAIN l : ~l[j].visible}, x \in HiddenItems}

\* C15, as stated: totalFootprint is the sum of width x depth over the visible items
\* and itemCount their number.
C15_FootprintIsVisibleSum ==
    \A call \in covLog :
        /\ call.stats.totalFootprint * 100 = VisibleFootprint(call.furniture)
        /\ call.stats.itemCount = Cardinality(VisibleIndices(call.furniture))

\* C15, amended: totalFootprint is the sum of width x depth over exactly the visible
\* items, rounded to 2 decimal places; itemCount is the number of visible items;
\* removing, adding or changing a hidden item does not change the result; items of
\* 2.0 and 3.0 m2 with only the first visible in a 10 x 8 room give 2.0 and 2.5%.
C15_VisibleItemsOnly ==
    \A call \in covLog :
        LET sum == VisibleFootprint(call.furniture)
            returned == call.stats.totalFootprint * 100
        IN  /\ returned - sum <= 50
            /\ sum - returned <= 50
            /\ call.stats.itemCount = Cardinality(VisibleIndices(call.furniture))
            /\ \A v \in HiddenVariants(call.furniture) :
                   calculateRoomCoverage(v, call.roomWidth, call.roomDepth, call.half)
                       = call.stats
            /\ (/\ call.furniture = <<[visible |-> TRUE] @@ exampleItemA,
                                       [visible |-> FALSE] @@ exampleItemB>>
                /\ call.roomWidth = 1000
                /\ call.roomDepth = 800)
                   => call.stats = [totalFootprint |-> 200, coveragePercentage |-> 25,
                                    itemCount |-> 1]

C15_Witness ==
    \E call \in covLog :
        /\ call.furniture = <<[visible |-> TRUE] @@ exampleItemA,
                              [visible |-> FALSE] @@ exampleItemB>>
        /\ call.roomWidth = 1000
        /\ call.roomDepth = 800
        /\ call.stats.totalFootprint = 200
        /\ covStats = call.stats

\* C16: for a list with no visible item, the empty list included, and a room of
\* positive width and depth, calculateRoomCoverage returns totalFootprint 0,
\* coveragePercentage 0 and itemCount 0.
C16_AllHiddenIsZero ==
    \A call \in covLog :
        (/\ VisibleIndices(call.furniture) = {}
         /\ call.roomWidth > 0
         /\ call.roomDepth > 0)
            => call.stats = [totalFootprint |-> 0, coveragePercentage |-> 0, itemCount |-> 0]

C16_Witness ==
    \E call \in covLog :
        /\ Len(call.furniture) = MaxListLen
        /\ VisibleIndices(call.furniture) = {}
        /\ call.roomWidth > 0
        /\ call.roomDepth > 0
        /\ call.stats.itemCount = 0
        /\ call.stats.totalFootprint = 0

SameArguments(a, b) ==
    /\ a.furniture = b.furniture
    /\ a.roomWidth = b.roomWidth
    /\ a.roomDepth = b.roomDepth

----------------------------------------------------------------------------
(* Data rules of the catalogs and of result items (Spec)                   *)

UniqueIds(items) ==
    \A i, j \in DOMAIN items : items[i].id = items[j].id => i = j

WellFormed(item) ==
    /\ item.dimensions.width > 0
    /\ item.dimensions.height > 0
    /\ item.dimensions.depth > 0
    /\ item.confidenceScore >= 0
    /\ item.confidenceScore <= 100
    /\ item.category \in FurnitureCategory
    /\ \A ch \in {item.color.r, item.color.g, item.color.b} :
           ch \in Int /\ ch >= 0 /\ ch <= 255

AllWellFormed(items) ==
    UniqueIds(items) /\ \A i \in DOMAIN items : WellFormed(items[i])

\* C20: in both catalogs, and in every result, ids are unique, width, height and
\* depth are greater than 0, confidence lies in [0, 1], category is one of the eight
\* FurnitureCategory values and every color channel is an integer in 0..255.
C20_RecordsWellFormed ==
    /\ AllWellFormed(MOCK_FURNITURE_DATABASE)
    /\ AllWellFormed(JAPANESE_FURNITURE_DATABASE)
    /\ pc = "done" => AllWellFormed(result.furniture)

C20_Witness ==
    /\ pc = "done"
    /\ Len(result.furniture) = Len(MOCK_FURNITURE_DATABASE)
    /\ result.furniture[1].id = "sofa-001"

----------------------------------------------------------------------------
(* Properties of retrieveFurnitureByCategory (SpecCategory)                *)

Range(s) ==
    {s[i] : i \in DOMAIN s}

\* the positions of the default catalog's records whose category is in the list
MatchingPositions(cats) ==
    {i \in DOMAIN MOCK_FURNITURE_DATABASE :
        MOCK_FURNITURE_DATABASE[i].category \in Range(cats)}

Recognized(c) ==
    c \in FurnitureCategory

\* C12: retrieveFurnitureByCategory returns exactly the default-catalog records whose
\* category is, as the same string, a member of categories: all of them, each once,
\* never a record of the Japanese catalog, every item visible, confidence
\* non-increasing.
C12_AllMatchesOfDefaultCatalog ==
    catPc = "done" =>
        LET items == catResult.furniture
        IN  /\ Len(items) = Cardinality(MatchingPositions(categories))
            /\ {WithoutVisible(items[i]) : i \in DOMAIN items}
                   = {MOCK_FURNITURE_DATABASE[i] : i \in MatchingPositions(categories)}
            /\ \A i \in DOMAIN items :
                   /\ items[i].visible = TRUE
                   /\ WithoutVisible(items[i]) \notin Range(JAPANESE_FURNITURE_DATABASE)
                   /\ items[i].id \notin Ids(JAPANESE_FURNITURE_DATABASE)
            /\ NonIncreasing(items)

C12_Witness ==
    /\ catPc = "done"
    /\ Len(categories) = MaxCategories
    /\ Cardinality(Range(categories) \cap FurnitureCategory) = 2
    /\ Len(catResult.furniture) > 3
    /\ Cardinality({catResult.furniture[i].category : i \in DOMAIN catResult.furniture}) = 2

\* C13: retrieveFurnitureByCategory has a result for every list it is called with; a list
\* with no category value in it (other spellings such as 'Sofa' included, and the empty
\* list) gives an empty result; strings that are no category value do not change what
\* the other entries match.
C13_UnrecognizedMatchNothing ==
    /\ catPc = "delay" =>
        Len(retrievedByCategory(MOCK_FURNITURE_DATABASE, categories)) \in Nat
    /\ catPc = "done" =>
        /\ (\A i \in DOMAIN categories : ~Recognized(categories[i]))
               => catResult.furniture = <<>>
        /\ catResult.furniture
               = retrievedByCategory(MOCK_FURNITURE_DATABASE, SelectSeq(categories, Recognized))
        /\ {catResult.furniture[i].id : i \in DOMAIN catResult.furniture}
               = {MOCK_FURNITURE_DATABASE[i].id :
                     i \in MatchingPositions(SelectSeq(categories, Recognized))}

C13_Witness ==
    /\ catPc = "done"
    /\ categories # <<>>
    /\ \E i \in DOMAIN categories : categories[i] = "Sofa"
    /\ \A i \in DOMAIN categories : ~Recognized(categories[i])
    /\ catResult.furniture = <<>>

\* a list with a category value and another string returns what the value alone does
C13_WitnessMixed ==
    /\ catPc = "done"
    /\ categories = <<"seating", "lamp">>
    /\ catResult.furniture # <<>>

----------------------------------------------------------------------------
(* Properties of several retrievals (SpecCalls, FairSpecCalls, SpecAlias)  *)

Done(c) ==
    calls[c].pc = "done"

\* what the call returns when it is the only one: computed from the catalog literals
AloneResult(call) ==
    IF call.kind = "style"
    THEN retrievedFurniture(getFurnitureByStyle(detectRoomStyle(call.query)),
                            call.maxResults)
    ELSE retrievedByCategory(MOCK_FURNITURE_DATABASE, call.categories)

C14_IndependentCalls ==
    \A c \in 1..MaxCalls :
        /\ [](calls[c].pc = "delay" => <>(calls[c].pc = "done"))
        /\ [](calls[c].pc = "done" => calls[c].returned = AloneResult(calls[c]))

\* a retrieveFurniture call and a later retrieveFurnitureByCategory call, both in
\* flight from time 0, the second one completing first
C14_Witness ==
    /\ Done(1) /\ Done(2)
    /\ calls[1].kind = "style"
    /\ calls[2].kind = "category"
    /\ calls[1].deadline = DelayMs
    /\ calls[2].deadline = CategoryDelayMs
    /\ calls[2].result.timestamp < calls[1].result.timestamp
    /\ calls[1].returned = AloneResult(calls[1])
    /\ calls[1].returned # <<>>
    /\ calls[2].returned # <<>>

\* C18: after any retrievals and coverage computations both catalogs hold the
\* records of their literals in the same order, without a visible field, and every
\* item of every returned result has the visible flag the caller last gave it
\* (true when the caller never changed it).
C18_CoreWritesNothing ==
    /\ DerefAll(mockDb, objects) = MOCK_FURNITURE_DATABASE
    /\ DerefAll(japaneseDb, objects) = JAPANESE_FURNITURE_DATABASE
    /\ \A c \in 1..MaxCalls :
           Done(c) =>
               /\ Len(calls[c].result.furniture) = Len(calls[c].held)
               /\ \A i \in DOMAIN calls[c].result.furniture :
                      calls[c].result.furniture[i].visible = calls[c].held[i].visible

C18_Witness ==
    /\ Done(1) /\ Done(2)
    /\ calls[1].kind # calls[2].kind
    /\ covStats # NoStats
    /\ calls[1].result.furniture[1].visible = FALSE
    /\ calls[2].result.furniture[1].visible = TRUE
    /\ DerefAll(mockDb, objects) = MOCK_FURNITURE_DATABASE

\* C19, as stated: a caller's change to any part of an item it was given changes
\* neither a catalog record nor an item of another result: the catalogs read as their
\* literals, and every result reads as its caller was given it and then changed it.
C19_ItemsAreFresh ==
    /\ DerefAll(mockDb, objects) = MOCK_FURNITURE_DATABASE
    /\ DerefAll(japaneseDb, objects) = JAPANESE_FURNITURE_DATABASE
    /\ \A c \in 1..MaxCalls :
           Done(c) => DerefAll(calls[c].result.furniture, objects) = calls[c].held

\* what does hold: a change of the visible flag stays in the item it was made in
C19_VisibleIsOwn ==
    \A c \in 1..MaxCalls :
        Done(c) =>
            \A i \in DOMAIN calls[c].result.furniture :
                calls[c].result.furniture[i].visible = calls[c].held[i].visible

----------------------------------------------------------------------------
(* retrieveFurniture with a maxResults that is not positive (Spec)          *)

\* C24: retrieveFurniture never returns more than maxResults items; for a maxResults
\* of zero or less the returned furniture list is empty.
C24_NeverMoreThanMaxResults ==
    pc = "done" =>
        /\ Len(result.furniture) <= Max(maxResults, 0)
        /\ maxResults <= 0 => result.furniture = <<>>

\* what does hold: the bound for a maxResults that is not negative, and for a
\* negative one the catalog without its last -maxResults records
C24_SliceFromTheEnd ==
    pc = "done" =>
        /\ maxResults >= 0 => Len(result.furniture) <= maxResults
        /\ maxResults < 0 =>
               Len(result.furniture) = Max(Len(furnitureDatabase) + maxResults, 0)

----------------------------------------------------------------------------
(* calculateRoomCoverage for a room without area (SpecCoverage)            *)

\* C25: called with a room width or depth of 0, calculateRoomCoverage returns the
\* totalFootprint and itemCount it returns for a room with area, and a
\* coveragePercentage that is NaN when the visible footprint is 0 and Infinity when
\* it is positive.
C25_NoGuardOnRoom ==
    \A call \in covLog :
        (call.roomWidth = 0 \/ call.roomDepth = 0) =>
            LET inRoom == calculateRoomCoverage(call.furniture, 1000, 800,
                              [footprint |-> call.half.footprint, percentage |-> "up"])
            IN  /\ call.stats.totalFootprint = inRoom.totalFootprint
                /\ call.stats.itemCount = inRoom.itemCount
                /\ call.stats.itemCount = Cardinality(VisibleIndices(call.furniture))
                /\ VisibleFootprint(call.furniture) = 0
                       => call.stats.coveragePercentage = NaN
                /\ VisibleFootprint(call.furniture) > 0
                       => call.stats.coveragePercentage = PositiveInfinity

C25_Witness ==
    \E a, b \in covLog :
        /\ a.roomWidth = 0
        /\ b.roomWidth = 0
        /\ a.stats.coveragePercentage = NaN
        /\ Len(a.furniture) = MaxListLen
        /\ b.stats.coveragePercentage = PositiveInfinity
        /\ b.stats.totalFootprint > 0

\* the same for a room without depth
C25_WitnessDepth ==
    \E a \in covLog :
        /\ a.roomDepth = 0
        /\ a.roomWidth > 0
        /\ a.stats.coveragePercentage = PositiveInfinity


----------------------------------------------------------------------------
(* C22: handleToggleFurniture                                              *)

\* the two lists have the same items in the same order, but for the visible flag of the
\* items whose id is id, which is flipped
C22_FlippedAt(before, after, id) ==
    /\ Len(after) = Len(before)
    /\ \A i \in 1..Len(before) :
           IF before[i].id = id
           THEN /\ after[i].visible = ~before[i].visible
                /\ [after[i] EXCEPT !.visible = before[i].visible] = before[i]
           ELSE after[i] = before[i]

\* C22: handleToggleFurniture(id) flips the visible flag of the item whose id equals id
\* and leaves every other item, every other field and the order of the list unchanged;
\* applying it a second time with the same id restores the list
C22_ToggleFlipsOne ==
    [][covFurniture' # covFurniture =>
          \E i \in DOMAIN covFurniture :
              LET id == covFurniture[i].id
              IN  /\ C22_FlippedAt(covFurniture, covFurniture', id)
                  /\ toggleFurniture(covFurniture', id) = covFurniture]_vars

\* a list of two items with different ids was measured, and then one of its items was
\* toggled: the displayed list differs from the measured one in that item's flag only
C22_Witness ==
    \E call \in covLog :
        /\ Len(call.furniture) = 2
        /\ call.furniture[1].id # call.furniture[2].id
        /\ covFurniture # call.furniture
        /\ C22_FlippedAt(call.furniture, covFurniture, call.furniture[2].id)

----------------------------------------------------------------------------
(* The demo page: HomePage holds furniture, isLoading and chatMessages;    *)
(* its chat box, its furniture panel and the cards of the panel call the   *)
(* handlers of the page. A handler runs without interruption up to its     *)
(* await and again from the settling of retrieveFurniture to its end.      *)
(* The id and timestamp of a chat message are left out.                    *)

MaxSends == 2
MaxPending == 2
MaxToggleCards == 2

\* the maxResults both handlers pass to retrieveFurniture
PageMaxResults == 10

pageOthers == <<retrieveVars, now, coverageVars, categoryVars, callVars, searchVars,
                wrapperVars>>

\* String.prototype.trim
isWhiteSpace(c) == c \in {" ", "\t", "\n"}
RECURSIVE trimStart(_)
trimStart(s) ==
    IF s # <<>> /\ isWhiteSpace(Head(s)) THEN trimStart(Tail(s)) ELSE s
RECURSIVE trimEnd(_)
trimEnd(s) ==
    IF s # <<>> /\ isWhiteSpace(s[Len(s)]) THEN trimEnd(SubSeq(s, 1, Len(s) - 1)) ELSE s
trim(s) == trimEnd(trimStart(s))

\* what the user types into the chat input, and the quick prompt buttons
TypedInputs ==
    {<<>>, <<" ">>, fragRoom, <<" ">> \o fragZEN \o <<" ">>}
QuickPrompts ==
    {queryJapaneseRoom}

\* the three kinds of chat message
userMessage(message) ==
    [role |-> "user", template |-> "text", text |-> message, style |-> "none", items |-> 0]
assistantMessage(roomStyle, items) ==
    [role |-> "assistant", template |-> "generated", text |-> <<>>,
     style |-> roomStyle, items |-> items]
errorMessage ==
    [role |-> "assistant", template |-> "error", text |-> <<>>, style |-> "none", items |-> 0]

\* a control that starts a retrieval does so only while isLoading is false
acceptsInputAlways(loading) == TRUE
acceptsInput(loading) == ~loading

\* setFurniture(result.furniture): the new state is the value passed
setFurnitureKeepFlags(prev, value) ==
    [i \in 1..Len(value) |->
        IF i <= Len(prev) THEN [value[i] EXCEPT !.visible = prev[i].visible] ELSE value[i]]
setFurniture(prev, value) == value

every(furniture) == \A i \in 1..Len(furniture) : furniture[i].visible

\* the click handler of the Hide All / Show All button: for each item of the rendered
\* list whose flag differs from allVisible, onToggleFurniture(f.id); the queued updates
\* are applied in order
RECURSIVE toggleEach(_, _, _, _)
toggleEach(state, rendered, allVisible, i) ==
    IF i > Len(rendered) THEN state
    ELSE toggleEach(IF allVisible # rendered[i].visible
                    THEN toggleFurniture(state, rendered[i].id)
                    ELSE state,
                    rendered, allVisible, i + 1)
toggleAll(furniture) == toggleEach(furniture, furniture, every(furniture), 1)

InitPage ==
    /\ PageUnused
    /\ SearchUnused
    /\ WrapperUnused
    /\ RetrieveUnused
    /\ CoverageUnused
    /\ CategoryUnused
    /\ CallsUnused
    /\ now = 0

\* handleRetrieveFurniture up to its await, from the panel's Retrieve button
ClickRetrieveFurniture ==
    /\ acceptsInput(isLoading)
    /\ Len(pending) < MaxPending
    /\ isLoading' = TRUE
    /\ \E h \in {[kind |-> "retrieve", message |-> queryMount, style |-> "none",
                 toggled |-> FALSE]} :
           /\ pending' = Append(pending, h)
           /\ lastEvent' = [type |-> "start", handler |-> h, discarded |-> FALSE]
    /\ UNCHANGED <<pageFurniture, chatMessages, pageOthers>>

\* handleSendMessage(message) up to its await
handleSendMessage(message) ==
    /\ Len(pending) < MaxPending
    /\ Len(chatMessages) < 2 * MaxSends
    /\ chatMessages' = Append(chatMessages, userMessage(message))
    /\ isLoading' = TRUE
    /\ \E h \in {[kind |-> "send", message |-> message,
                 style |-> detectRoomStyle(message), toggled |-> FALSE]} :
           /\ pending' = Append(pending, h)
           /\ lastEvent' = [type |-> "start", handler |-> h, discarded |-> FALSE]
    /\ UNCHANGED <<pageFurniture, pageOthers>>

\* handleSubmit of the chat box
HandleSubmit ==
    \E input \in TypedInputs :
        /\ trim(input) # <<>>
        /\ acceptsInput(isLoading)
        /\ handleSendMessage(trim(input))

\* handleQuickPrompt of the chat box
HandleQuickPrompt ==
    \E prompt \in QuickPrompts :
        /\ acceptsInput(isLoading)
        /\ handleSendMessage(prompt)

\* the oldest retrieveFurniture call resolves and its handler runs to its end
ResolveRetrieveFurniture ==
    /\ pending # <<>>
    /\ \E h \in {Head(pending)} :
       \E furniture \in {retrievedFurniture(getFurnitureByStyle(detectRoomStyle(h.message)),
                                            PageMaxResults)} :
           /\ pageFurniture' = setFurniture(pageFurniture, furniture)
           /\ chatMessages' = IF h.kind = "send"
                              THEN Append(chatMessages,
                                          assistantMessage(h.style, Len(furniture)))
                              ELSE chatMessages
           /\ lastEvent' = [type |-> "resolved", handler |-> h,
                            discarded |-> ~every(pageFurniture)]
    /\ isLoading' = FALSE
    /\ pending' = Tail(pending)
    /\ UNCHANGED pageOthers

\* the catch path of the handlers: the awaited call rejects
RejectRetrieveFurniture ==
    /\ pending # <<>>
    /\ \E h \in {Head(pending)} :
           /\ chatMessages' = IF h.kind = "send"
                              THEN Append(chatMessages, errorMessage)
                              ELSE chatMessages
           /\ lastEvent' = [type |-> "rejected", handler |-> h, discarded |-> FALSE]
    /\ isLoading' = FALSE
    /\ pending' = Tail(pending)
    /\ UNCHANGED <<pageFurniture, pageOthers>>

\* a click on a card of the panel: onToggleVisibility(item.id)
ClickFurnitureItem ==
    /\ \E i \in 1..Min(Len(pageFurniture), MaxToggleCards) :
           pageFurniture' = toggleFurniture(pageFurniture, pageFurniture[i].id)
    /\ lastEvent' = [type |-> "toggle", handler |-> NoHandler, discarded |-> FALSE]
    /\ pending' = [i \in 1..Len(pending) |-> [pending[i] EXCEPT !.toggled = TRUE]]
    /\ UNCHANGED <<isLoading, chatMessages, pageOthers>>

\* a click on the Hide All / Show All button, shown while the list is not empty
ClickToggleAll ==
    /\ pageFurniture # <<>>
    /\ pageFurniture' = toggleAll(pageFurniture)
    /\ lastEvent' = [type |-> IF every(pageFurniture) THEN "Hide All" ELSE "Show All",
                     handler |-> NoHandler, discarded |-> FALSE]
    /\ pending' = [i \in 1..Len(pending) |-> [pending[i] EXCEPT !.toggled = TRUE]]
    /\ UNCHANGED <<isLoading, chatMessages, pageOthers>>

NextPage ==
    \/ ClickRetrieveFurniture
    \/ HandleSubmit
    \/ HandleQuickPrompt
    \/ ResolveRetrieveFurniture
    \/ RejectRetrieveFurniture
    \/ ClickFurnitureItem
    \/ ClickToggleAll

SpecPage == InitPage /\ [][NextPage]_vars

----------------------------------------------------------------------------
(* C21: the Hide All / Show All button of the furniture panel              *)

nothingVisible(furniture) == \A i \in 1..Len(furniture) : ~furniture[i].visible

\* C21: a click on the bulk button while it reads 'Hide All' (every item visible) leaves
\* every item hidden, and a click while it reads 'Show All' (at least one item hidden)
\* leaves every item visible
C21_BulkButton ==
    /\ lastEvent.type = "Hide All" => nothingVisible(pageFurniture)
    /\ lastEvent.type = "Show All" => every(pageFurniture)

\* what the click handler does: with every item visible no item differs from
\* allVisible and nothing is toggled; otherwise the visible items are the ones that
\* differ from allVisible, and they are hidden
C21_BulkButtonAsCoded ==
    /\ lastEvent.type = "Hide All" => every(pageFurniture)
    /\ lastEvent.type = "Show All" => nothingVisible(pageFurniture)

----------------------------------------------------------------------------
(* C23: one retrieval at a time on the demo page                           *)

\* C23: while isLoading is true neither the chat form nor a quick prompt nor the
\* Retrieve button starts a retrieval, so at most one retrieval is in flight at a time;
\* isLoading is true exactly while one is in flight and is false again when it has
\* completed or failed
C23_OneRetrievalAtATime ==
    /\ [](/\ Len(pending) <= 1
          /\ isLoading <=> pending # <<>>
          /\ lastEvent.type \in {"resolved", "rejected"} => ~isLoading)
    /\ [][isLoading => /\ Len(pending') <= Len(pending)
                       /\ lastEvent'.type # "start"]_vars

\* a second message is in flight after the first retrieval completed
C23_Witness ==
    /\ isLoading
    /\ Len(pending) = 1
    /\ Len(chatMessages) = 3
    /\ chatMessages[2].template = "generated"

----------------------------------------------------------------------------
(* C26: the chat history of the demo page                                  *)

isPrefix(s, t) == Len(s) <= Len(t) /\ SubSeq(t, 1, Len(s)) = s

\* the reply to a user message: the success text for the style detected in the message
\* and the number of items retrieved for it, or the error text
isReplyTo(reply, message) ==
    \/ reply = errorMessage
    \/ reply = assistantMessage(
                   detectRoomStyle(message.text),
                   Len(retrievedFurniture(getFurnitureByStyle(detectRoomStyle(message.text)),
                                          PageMaxResults)))

sendsInFlight == Cardinality({i \in 1..Len(pending) : pending[i].kind = "send"})

----------------------------------------------------------------------------
(* C27: a completed retrieval replaces the displayed list                  *)

\* C27: when a retrieval completes the displayed furniture list is replaced wholesale
\* by the result: it is the list retrieveFurniture returns for the handler's query,
\* every item is visible, and the toggles made before or during the flight are gone
C27_ResultReplacesList ==
    lastEvent.type = "resolved" =>
        /\ pageFurniture =
               retrievedFurniture(
                   getFurnitureByStyle(detectRoomStyle(lastEvent.handler.message)),
                   PageMaxResults)
        /\ every(pageFurniture)
        /\ Len(pageFurniture) > 0

\* a retrieval completed while items of the displayed list were hidden, after a
\* toggle made during its flight
C27_Witness ==
    /\ lastEvent.type = "resolved"
    /\ lastEvent.discarded
    /\ lastEvent.handler.toggled
    /\ every(pageFurniture)

----------------------------------------------------------------------------
(* The search front end: App holds results, isLoading, error, the filter   *)
(* panel's state and the current prompt; the search form, the results      *)
(* header and the filter panel call its handlers. handleSearch runs        *)
(* without interruption up to its await of getFurnitureRecommendations     *)
(* and again from the settling of that request to its end. The requests    *)
(* are answered by a backend outside this repository, in any order, with   *)
(* a response or a failure. The progress bar and the toasts are left out.  *)

MaxSearches == 3

searchOthers == <<retrieveVars, now, coverageVars, categoryVars, callVars, pageVars,
                  wrapperVars>>

\* what the user types into the search form, and the types of the filter panel shown
TypedPrompts ==
    {<<" ">>, fragRoom, fragZEN}
FilterTypes ==
    {"Sofa"}

\* 'Unable to fetch recommendations. Please check your connection.'
searchErrorMessage == "Unable to fetch recommendations"

\* the response of the backend to a request: it names the request it answers
responseTo(request) ==
    [query |-> request.prompt, furnitureTypes |-> request.furnitureTypes]

pendingSearches == {i \in 1..Len(searches) : searches[i].status = "pending"}

\* the form submits only while isLoading is false
formAccepts(loading) == ~loading

InitSearch ==
    /\ SearchUnused
    /\ PageUnused
    /\ WrapperUnused
    /\ RetrieveUnused
    /\ CoverageUnused
    /\ CategoryUnused
    /\ CallsUnused
    /\ now = 0

\* handleSearch(prompt, furnitureTypes) up to its await; the request carries
\* furnitureTypes || selectedFurnitureTypes, and an empty array is truthy
handleSearch(prompt, furnitureTypes) ==
    /\ Len(searches) < MaxSearches
    /\ appIsLoading' = TRUE
    /\ error' = "null"
    /\ currentPrompt' = prompt
    /\ searches' = Append(searches, [prompt |-> prompt, furnitureTypes |-> furnitureTypes,
                                     status |-> "pending"])
    /\ UNCHANGED results

\* handleSubmit of the search form: onSearch(prompt.trim())
HandleSearchSubmit ==
    \E prompt \in TypedPrompts :
        /\ trim(prompt) # <<>>
        /\ formAccepts(appIsLoading)
        /\ handleSearch(trim(prompt), selectedFurnitureTypes)
        /\ UNCHANGED <<isFilterOpen, selectedFurnitureTypes, searchOthers>>

\* the Filters button of the results header, shown with results and without error
OpenFilter ==
    /\ results # <<>>
    /\ error = "null"
    /\ ~isFilterOpen
    /\ isFilterOpen' = TRUE
    /\ UNCHANGED <<results, appIsLoading, error, selectedFurnitureTypes, currentPrompt,
                   searches, searchOthers>>

\* onClose of the filter panel
CloseFilter ==
    /\ isFilterOpen
    /\ isFilterOpen' = FALSE
    /\ UNCHANGED <<results, appIsLoading, error, selectedFurnitureTypes, currentPrompt,
                   searches, searchOthers>>

\* handleFurnitureTypeToggle(type)
HandleFurnitureTypeToggle ==
    /\ isFilterOpen
    /\ \E type \in FilterTypes :
           selectedFurnitureTypes' =
               IF arrayIncludes(selectedFurnitureTypes, type)
               THEN SelectSeq(selectedFurnitureTypes, LAMBDA t : t # type)
               ELSE Append(selectedFurnitureTypes, type)
    /\ UNCHANGED <<results, appIsLoading, error, isFilterOpen, currentPrompt, searches,
                   searchOthers>>

\* handleApplyFilters
HandleApplyFilters ==
    /\ isFilterOpen
    /\ IF currentPrompt # <<>>
       THEN /\ handleSearch(currentPrompt, selectedFurnitureTypes)
            /\ isFilterOpen' = FALSE
       ELSE UNCHANGED <<results, appIsLoading, error, isFilterOpen, currentPrompt,
                        searches>>
    /\ UNCHANGED <<selectedFurnitureTypes, searchOthers>>

\* handleResetFilters
HandleResetFilters ==
    /\ isFilterOpen
    /\ selectedFurnitureTypes' = <<>>
    /\ IF currentPrompt # <<>>
       THEN handleSearch(currentPrompt, <<>>)
       ELSE UNCHANGED <<results, appIsLoading, error, currentPrompt, searches>>
    /\ UNCHANGED <<isFilterOpen, searchOthers>>

\* handleNewConsultation, from the floating button shown with results; the searches that
\* have settled no longer stand for what is displayed
HandleNewConsultation ==
    /\ results # <<>>
    /\ results' = <<>>
    /\ error' = "null"
    /\ selectedFurnitureTypes' = <<>>
    /\ currentPrompt' = <<>>
    /\ searches' = [i \in 1..Len(searches) |->
                       IF searches[i].status = "pending" THEN searches[i]
                       ELSE [searches[i] EXCEPT !.status = "dismissed"]]
    /\ UNCHANGED <<appIsLoading, isFilterOpen, searchOthers>>

\* a request is answered and its handleSearch run continues in try and finally
ResolveSearch ==
    \E i \in pendingSearches :
        /\ results' = <<responseTo(searches[i])>>
        /\ appIsLoading' = FALSE
        /\ searches' = [searches EXCEPT ![i].status = "ok"]
        /\ UNCHANGED <<error, isFilterOpen, selectedFurnitureTypes, currentPrompt,
                       searchOthers>>

\* a request fails (fetch rejects or the response is not ok) and its handleSearch run
\* continues in catch and finally
RejectSearch ==
    \E i \in pendingSearches :
        /\ error' = searchErrorMessage
        /\ appIsLoading' = FALSE
        /\ searches' = [searches EXCEPT ![i].status = "failed"]
        /\ UNCHANGED <<results, isFilterOpen, selectedFurnitureTypes, currentPrompt,
                       searchOthers>>

NextSearch ==
    \/ HandleSearchSubmit
    \/ OpenFilter
    \/ CloseFilter
    \/ HandleFurnitureTypeToggle
    \/ HandleApplyFilters
    \/ HandleResetFilters
    \/ HandleNewConsultation
    \/ ResolveSearch
    \/ RejectSearch

SpecSearch == InitSearch /\ [][NextSearch]_vars

----------------------------------------------------------------------------
(* C28, C29: overlapping searches of the search front end                  *)

\* C28: isLoading is true whenever a getFurnitureRecommendations request is in flight,
\* also when the search was started by Apply Filters or Reset All while an earlier
\* search was still pending
C28_LoadingWhileInFlight ==
    pendingSearches # {} => appIsLoading

\* what the handlers keep: while isLoading is true the search started last is still
\* pending, and with at most one search started the flag follows the request
C28_LoadingImpliesInFlight ==
    /\ appIsLoading => Len(searches) \in pendingSearches
    /\ Len(searches) <= 1 => (appIsLoading <=> pendingSearches # {})

\* C29: once every search in flight has completed, the displayed results and the error
\* state are those of the search started last, whatever the order of the responses
C29_LatestSearchWins ==
    (/\ searches # <<>>
     /\ pendingSearches = {}
     /\ searches[Len(searches)].status \in {"ok", "failed"}) =>
        LET latest == searches[Len(searches)]
        IN  IF latest.status = "ok"
            THEN results = <<responseTo(latest)>> /\ error = "null"
            ELSE error = searchErrorMessage

\* what the handlers keep: the displayed results are the response to one of the
\* searches that were answered
C29_ResultsOfSomeSearch ==
    results # <<>> =>
        \E i \in 1..Len(searches) :
            /\ searches[i].status \in {"ok", "dismissed"}
            /\ results = <<responseTo(searches[i])>>

----------------------------------------------------------------------------
(* LLMWrapper: the object owns a llama_model, a llama_context and a        *)
(* llama_sampler through three raw pointers. llama.cpp is outside this     *)
(* repository: loading the model and creating the context succeed or       *)
(* return nullptr. The backend's global initialisation and config_ are     *)
(* left out; the object is not used after its destructor has run.          *)

MaxInitializes == 3

wrapperOthers == <<retrieveVars, now, coverageVars, categoryVars, callVars, pageVars,
                   searchVars>>

\* llama_load_model_from_file, llama_new_context_with_model, llama_sampler_chain_init:
\* a new object, numbered by its place in llamaObjects
created(objs, kind) == Append(objs, [kind |-> kind, freed |-> 0])

\* llama_free_model, llama_free, llama_sampler_free
free(objs, p) == [objs EXCEPT ![p].freed = @ + 1]

\* isLoaded()
isLoaded == model_ # 0

InitWrapper ==
    /\ WrapperUnused
    /\ PageUnused
    /\ SearchUnused
    /\ RetrieveUnused
    /\ CoverageUnused
    /\ CategoryUnused
    /\ CallsUnused
    /\ now = 0

\* initialize(config): the model fails to load, or the context fails to be created and
\* the model is freed again, or all three objects are created
Initialize ==
    /\ ~destroyed
    /\ initializeCalls < MaxInitializes
    /\ initializeCalls' = initializeCalls + 1
    /\ \E outcome \in {"no model", "no context", "ok"} :
           /\ lastCall' = "initialize: " \o outcome
           /\ IF outcome = "no model"
              THEN /\ model_' = 0
                   /\ UNCHANGED <<ctx_, sampler_, llamaObjects>>
              ELSE LET withModel == created(llamaObjects, "model")
                       m == Len(withModel)
                   IN  IF outcome = "no context"
                       THEN /\ ctx_' = 0
                            /\ llamaObjects' = free(withModel, m)
                            /\ model_' = 0
                            /\ UNCHANGED sampler_
                       ELSE /\ model_' = m
                            /\ ctx_' = m + 1
                            /\ sampler_' = m + 2
                            /\ llamaObjects' =
                                   created(created(withModel, "context"), "sampler")
    /\ UNCHANGED <<destroyed, wrapperOthers>>

\* the body of cleanup(): each member that is not nullptr is freed and set to nullptr
cleanup ==
    /\ llamaObjects' =
           LET s == IF sampler_ # 0 THEN free(llamaObjects, sampler_) ELSE llamaObjects
               c == IF ctx_ # 0 THEN free(s, ctx_) ELSE s
           IN  IF model_ # 0 THEN free(c, model_) ELSE c
    /\ sampler_' = 0
    /\ ctx_' = 0
    /\ model_' = 0

\* a call of cleanup()
Cleanup ==
    /\ ~destroyed
    /\ cleanup
    /\ lastCall' = "cleanup"
    /\ UNCHANGED <<destroyed, initializeCalls, wrapperOthers>>

\* ~LLMWrapper()
Destroy ==
    /\ ~destroyed
    /\ cleanup
    /\ destroyed' = TRUE
    /\ lastCall' = "destroy"
    /\ UNCHANGED <<initializeCalls, wrapperOthers>>

NextWrapper ==
    \/ Initialize
    \/ Cleanup
    \/ Destroy

SpecWrapper == InitWrapper /\ [][NextWrapper]_vars

----------------------------------------------------------------------------
(* C30: ownership of the llama.cpp objects                                 *)

held == {model_, ctx_, sampler_} \ {0}

\* C30: over any sequence of initialize, cleanup and destruction every model, context
\* and sampler that was created is freed exactly once, never leaked and never freed
\* twice: an object not yet freed is one a member points to, and after destruction
\* every object has been freed once; isLoaded() is true exactly when a model is held;
\* a failed context creation in initialize leaves isLoaded() false
C30_FreedExactlyOnce ==
    /\ \A p \in 1..Len(llamaObjects) :
           /\ llamaObjects[p].freed <= 1
           /\ llamaObjects[p].freed = 0 => p \in held
           /\ destroyed => llamaObjects[p].freed = 1
    /\ isLoaded <=> \E p \in 1..Len(llamaObjects) :
                        /\ llamaObjects[p].kind = "model"
                        /\ llamaObjects[p].freed = 0
                        /\ p = model_
    /\ lastCall = "initialize: no context" => ~isLoaded

\* what the member functions keep: no object is freed twice, a member never points to
\* a freed object, isLoaded() tells whether model_ points to a live model, a failed
\* load or context creation leaves isLoaded() false, and an object whose initialize
\* was called at most once leaks nothing
C30_NoDoubleFree ==
    /\ \A p \in 1..Len(llamaObjects) : llamaObjects[p].freed <= 1
    /\ \A p \in held : llamaObjects[p].freed = 0
    /\ isLoaded <=> (model_ \in 1..Len(llamaObjects)
                        /\ llamaObjects[model_].kind = "model"
                        /\ llamaObjects[model_].freed = 0)
    /\ lastCall \in {"initialize: no context", "initialize: no model"} => ~isLoaded
    /\ initializeCalls <= 1 =>
           \A p \in 1..Len(llamaObjects) :
               /\ llamaObjects[p].freed = 0 => p \in held
               /\ destroyed => llamaObjects[p].freed = 1
====
